---- MODULE Spec2Model ----
(***************************************************************************)
(* OTP e-mail verification of hono-better-auth (src/src/index.ts):         *)
(* the verification table, the user table, the request handlers of         *)
(* POST /api/verify-otp and POST /api/resend-otp, and the hourly sweeper   *)
(* cleanupExpiredVerifications.  Every await of a handler is one step, so  *)
(* concurrent requests and the sweeper interleave at the storage calls.    *)
(* One clock unit is five minutes.                                         *)
(***************************************************************************)
EXTENDS Integers, Sequences, FiniteSets, TLC

VARIABLES now, users, verification, handlers, sweeper, issued, served

vars == <<now, users, verification, handlers, sweeper, issued, served>>

(* ------------------------------ bounds --------------------------------- *)

\* The clock runs from 0 to MaxTime.
MaxTime == 3

\* At most MaxRequests requests arrive over a run.
MaxRequests == 3

(* ------------------------- program constants --------------------------- *)

\* 10 * 60 * 1000 ms, in clock units of five minutes.
OtpTtl == 2

Emails == {"a@x.com", "b@x.com"}

Handlers == {"h1", "h2"}

HandlerOrder == [h \in Handlers |-> IF h = "h1" THEN 1 ELSE 2]

\* Math.random() sampled at its two ends, in millionths.
RandomSamples == {0, 999999}

(* --------------------------- code generation --------------------------- *)

Digit(d) ==
  CASE d = 0 -> "0" [] d = 1 -> "1" [] d = 2 -> "2" [] d = 3 -> "3"
    [] d = 4 -> "4" [] d = 5 -> "5" [] d = 6 -> "6" [] d = 7 -> "7"
    [] d = 8 -> "8" [] d = 9 -> "9"

RECURSIVE NumberToString(_)
\* Number.prototype.toString of a non-negative integer.
NumberToString(n) ==
  IF n < 10 THEN Digit(n) ELSE NumberToString(n \div 10) \o Digit(n % 10)

\* Math.floor(100000 + Math.random() * 900000), Math.random() = u / 10^6.
\* 900000 / 10^6 = 9 / 10, and the floor of 100000 + x is 100000 + floor(x).
RandomCode(u) == 100000 + (u * 9) \div 10

GenerateOTP(u) == NumberToString(RandomCode(u))

\* The codes a client may submit: z.string().length(6).
SubmittedCodes == {GenerateOTP(u) : u \in RandomSamples} \cup {"123456"}

(* ------------------------------ responses ------------------------------ *)

NoResponse == [status |-> 0, body |-> ""]

VerifiedResponse == [status |-> 200, body |-> "Email verified successfully!"]

InvalidOrExpiredCode ==
  [status |-> 400, body |-> "Invalid or expired verification code"]

VerifyFailed == [status |-> 500, body |-> "Failed to verify code"]

ResentResponse ==
  [status |-> 200, body |-> "Verification code resent successfully!"]

UserNotFound == [status |-> 404, body |-> "User not found"]

AlreadyVerified == [status |-> 400, body |-> "Email already verified"]

ResendFailed == [status |-> 500, body |-> "Failed to resend verification code"]

\* The 200 answer of GET /api/verification-status/{email}.
StatusResponse(emailVerified) ==
  [status |-> 200,
   body |-> IF emailVerified THEN "emailVerified: true"
            ELSE "emailVerified: false"]

StatusFailed == [status |-> 500, body |-> "Failed to check verification status"]

(* ------------------------------- storage ------------------------------- *)

\* A storage call that writes: it resolves after taking effect, or it throws,
\* the statement either rolled back or applied before the connection failed.
WriteOutcomes(before, after) ==
  { [state |-> after, ok |-> TRUE],
    [state |-> before, ok |-> FALSE],
    [state |-> after, ok |-> FALSE] }

\* The lookup with gte in place of gt: a code is accepted at its expiry instant.
MatchesLookupGte(r, email, code, t) ==
  r.identifier = email /\ r.value = code /\ r.expiresAt >= t

\* The lookup without eq(value, code): any code of the identifier is accepted.
MatchesLookupAnyCode(r, email, code, t) ==
  r.identifier = email /\ r.expiresAt > t

\* and(eq(identifier, email), eq(value, code), gt(expiresAt, new Date()))
MatchesLookup(r, email, code, t) ==
  r.identifier = email /\ r.value = code /\ r.expiresAt > t

FindVerification(rows, email, code, t) ==
  {r \in rows : MatchesLookup(r, email, code, t)}

\* db.update(user).set({ emailVerified: true }).where(eq(user.email, email))
MarkVerified(us, email) ==
  { IF u.email = email THEN [u EXCEPT !.emailVerified = TRUE] ELSE u : u \in us }

\* The delete narrowed to one row of the identifier.
DeleteOneOfIdentifier(rows, email) ==
  IF \E r \in rows : r.identifier = email
  THEN rows \ {CHOOSE r \in rows : r.identifier = email}
  ELSE rows

\* db.delete(verification).where(eq(verification.identifier, email))
DeleteByIdentifier(rows, email) == {r \in rows : r.identifier # email}

\* db.select().from(user).where(eq(user.email, email)).limit(1)
FindUser(us, email) == {u \in us : u.email = email}

\* crypto.randomUUID(): an id no stored row has.
NewId(rows) ==
  CHOOSE i \in 1..(Cardinality(rows) + 1) :
    /\ \A r \in rows : r.id # i
    /\ \A j \in 1..(i - 1) : \E r \in rows : r.id = j

\* The row db.insert(verification).values({...}) stores at time t.
NewVerification(rows, email, code, t) ==
  [id |-> NewId(rows), identifier |-> email, value |-> code,
   expiresAt |-> t + OtpTtl]

\* The sweep filter with a cutoff one clock unit ahead of the current time.
IsSweptAhead(r, t) == r.expiresAt <= t + 1

\* The sweep filter with gt in place of lt.
IsSweptGt(r, t) == r.expiresAt > t

\* lt(verification.expiresAt, new Date())
IsSwept(r, t) == r.expiresAt < t

\* db.delete(verification).where(lt(verification.expiresAt, new Date()))
DeleteExpired(rows, t) == {r \in rows : ~IsSwept(r, t)}

RowsOf(rows, email) == {r \in rows : r.identifier = email}

(* ------------------------------- handlers ------------------------------ *)

IdleHandler ==
  [pc |-> "idle", op |-> "none", email |-> "", code |-> "",
   resp |-> NoResponse, mail |-> <<>>]

\* The handler returns c.json(...).
Respond(h, r) ==
  [handlers[h] EXCEPT !.pc = "done", !.resp = r]

Quiet == \A g \in Handlers : handlers[g].pc \in {"idle", "done"}

\* POST /api/verify-otp arrives: c.req.valid('json').
StartVerify(h, email, code) ==
  /\ handlers[h].pc \in {"idle", "done"}
  /\ now < MaxTime
  /\ served < MaxRequests
  /\ handlers' = [handlers EXCEPT ![h] =
       [pc |-> "v_select", op |-> "verify", email |-> email, code |-> code,
        resp |-> NoResponse, mail |-> <<>>]]
  /\ served' = served + 1
  /\ UNCHANGED <<now, users, verification, sweeper, issued>>

\* The lookup of a valid verification row, and the early 400.
VerifySelect(h) ==
  /\ handlers[h].pc = "v_select"
  /\ \/ LET found == FindVerification(verification, handlers[h].email,
                                      handlers[h].code, now)
        IN handlers' = [handlers EXCEPT ![h] =
             IF found = {} THEN Respond(h, InvalidOrExpiredCode)
             ELSE [handlers[h] EXCEPT !.pc = "v_update"]]
     \/ handlers' = [handlers EXCEPT ![h] = Respond(h, VerifyFailed)]
  /\ UNCHANGED <<now, users, verification, sweeper, issued, served>>

\* The user row is marked verified.
VerifyUpdate(h) ==
  /\ handlers[h].pc = "v_update"
  /\ \E o \in WriteOutcomes(users, MarkVerified(users, handlers[h].email)) :
       /\ users' = o.state
       /\ handlers' = [handlers EXCEPT ![h] =
            IF o.ok THEN [handlers[h] EXCEPT !.pc = "v_delete"]
            ELSE Respond(h, VerifyFailed)]
  /\ UNCHANGED <<now, verification, sweeper, issued, served>>

\* The identifier's rows are deleted and the request answers.
VerifyDelete(h) ==
  /\ handlers[h].pc = "v_delete"
  /\ \E o \in WriteOutcomes(verification,
                            DeleteByIdentifier(verification, handlers[h].email)) :
       /\ verification' = o.state
       /\ handlers' = [handlers EXCEPT ![h] =
            Respond(h, IF o.ok THEN VerifiedResponse ELSE VerifyFailed)]
  /\ UNCHANGED <<now, users, sweeper, issued, served>>

\* POST /api/resend-otp arrives.
StartResend(h, email) ==
  /\ handlers[h].pc \in {"idle", "done"}
  /\ now < MaxTime
  /\ served < MaxRequests
  /\ handlers' = [handlers EXCEPT ![h] =
       [pc |-> "r_select", op |-> "resend", email |-> email, code |-> "",
        resp |-> NoResponse, mail |-> <<>>]]
  /\ served' = served + 1
  /\ UNCHANGED <<now, users, verification, sweeper, issued>>

\* The resend handler without its emailVerified check.
ResendCheckNoVerified(existingUser) ==
  IF existingUser = {} THEN UserNotFound ELSE NoResponse

\* The answer the resend handler gives on the looked-up user before it
\* issues anything; NoResponse when it goes on.
ResendCheck(existingUser) ==
  IF existingUser = {} THEN UserNotFound
  ELSE IF \E u \in existingUser : u.emailVerified THEN AlreadyVerified
  ELSE NoResponse

\* The user lookup, the 404 and 400 answers, and the new code.
ResendSelect(h) ==
  /\ handlers[h].pc = "r_select"
  /\ \/ LET early == ResendCheck(FindUser(users, handlers[h].email))
        IN IF early # NoResponse
           THEN handlers' = [handlers EXCEPT ![h] = Respond(h, early)]
           ELSE \E u \in RandomSamples :
                  handlers' = [handlers EXCEPT ![h] =
                    [handlers[h] EXCEPT !.pc = "r_delete",
                                        !.code = GenerateOTP(u)]]
     \/ handlers' = [handlers EXCEPT ![h] = Respond(h, ResendFailed)]
  /\ UNCHANGED <<now, users, verification, sweeper, issued, served>>

\* The identifier's existing codes are deleted.
ResendDelete(h) ==
  /\ handlers[h].pc = "r_delete"
  /\ \E o \in WriteOutcomes(verification,
                            DeleteByIdentifier(verification, handlers[h].email)) :
       /\ verification' = o.state
       /\ handlers' = [handlers EXCEPT ![h] =
            IF o.ok THEN [handlers[h] EXCEPT !.pc = "r_insert"]
            ELSE Respond(h, ResendFailed)]
  /\ UNCHANGED <<now, users, sweeper, issued, served>>

\* The new code is stored.
ResendInsert(h) ==
  /\ handlers[h].pc = "r_insert"
  /\ LET row == NewVerification(verification, handlers[h].email,
                                handlers[h].code, now)
     IN \E o \in WriteOutcomes(verification, verification \cup {row}) :
          /\ verification' = o.state
          /\ issued' = IF row \in o.state
                       THEN [issued EXCEPT ![handlers[h].email] =
                               Append(@, handlers[h].code)]
                       ELSE issued
          /\ handlers' = [handlers EXCEPT ![h] =
               IF o.ok THEN [handlers[h] EXCEPT !.pc = "r_send"]
               ELSE Respond(h, ResendFailed)]
  /\ UNCHANGED <<now, users, sweeper, served>>

\* sendEmail with its catch logging the error and not rethrowing it.
SendEmailSwallowed(delivered) == "resolved"

\* sendEmail: resend.emails.send resolves, or its error is rethrown.
SendEmail(delivered) == IF delivered THEN "resolved" ELSE "rejected"

\* The answer of the resend handler after sendVerificationEmail settled.
AfterSend(settled) ==
  IF settled = "resolved" THEN ResentResponse ELSE ResendFailed

\* The resend handler with a compensating delete: a failed dispatch removes
\* the rows of the identifier before the request answers.
ResendSendRollback(h) ==
  /\ handlers[h].pc = "r_send"
  /\ \E delivered \in BOOLEAN :
       /\ handlers' = [handlers EXCEPT ![h] =
            [Respond(h, AfterSend(SendEmail(delivered))) EXCEPT
               !.mail = Append(@, IF delivered THEN "sent" ELSE "failed")]]
       /\ verification' = IF delivered THEN verification
                          ELSE DeleteByIdentifier(verification, handlers[h].email)
  /\ UNCHANGED <<now, users, sweeper, issued, served>>

\* The e-mail is dispatched and the request answers.
ResendSend(h) ==
  /\ handlers[h].pc = "r_send"
  /\ \E delivered \in BOOLEAN :
       handlers' = [handlers EXCEPT ![h] =
         [Respond(h, AfterSend(SendEmail(delivered))) EXCEPT
            !.mail = Append(@, IF delivered THEN "sent" ELSE "failed")]]
  /\ UNCHANGED <<now, users, verification, sweeper, issued, served>>

\* The answer of the status handler on the looked-up user.
StatusAnswer(existingUser) ==
  IF existingUser = {} THEN UserNotFound
  ELSE StatusResponse(\E u \in existingUser : u.emailVerified)

\* GET /api/verification-status/{email}: the request arrives, its one storage
\* call, the user lookup, resolves or throws, and the handler answers.
VerificationStatus(h, email) ==
  /\ handlers[h].pc \in {"idle", "done"}
  /\ now < MaxTime
  /\ served < MaxRequests
  /\ \E answer \in {StatusAnswer(FindUser(users, email)), StatusFailed} :
       handlers' = [handlers EXCEPT ![h] =
         [pc |-> "done", op |-> "status", email |-> email, code |-> "",
          resp |-> answer, mail |-> <<>>]]
  /\ served' = served + 1
  /\ UNCHANGED <<now, users, verification, sweeper, issued>>

(* ------------------------------- sweeper ------------------------------- *)

\* cleanupExpiredVerifications without its try/catch: the rejection is
\* unhandled, the process ends and the timer with it.
CleanupEndUncaught(ok) ==
  [timer |-> IF ok THEN "scheduled" ELSE "stopped",
   log |-> IF ok THEN "cleaned" ELSE sweeper.log]

\* What a run of cleanupExpiredVerifications leaves behind: its log line, and
\* the interval timer, which the caught error never reaches.
CleanupEnd(ok) ==
  [timer |-> "scheduled", log |-> IF ok THEN "cleaned" ELSE "error"]

\* The interval timer fires and cleanupExpiredVerifications runs: the delete
\* of the rows expired at new Date(), resolving (ok) or throwing.
Cleanup(ok) ==
  /\ sweeper.timer = "scheduled"
  /\ \E o \in WriteOutcomes(verification, DeleteExpired(verification, now)) :
       /\ o.ok = ok
       /\ verification' = o.state
       /\ sweeper' = CleanupEnd(o.ok)
  /\ UNCHANGED <<now, users, handlers, issued, served>>

(* -------------------------------- clock -------------------------------- *)

\* Time passes; past MaxTime only as long as a stored code has not expired.
Tick ==
  /\ \/ now < MaxTime
     \/ \E r \in verification : r.expiresAt >= now
  /\ now' = now + 1
  /\ UNCHANGED <<users, verification, handlers, sweeper, issued, served>>

(* ---------------------------- specification ---------------------------- *)

Init ==
  /\ now = 0
  /\ users = { [email |-> "a@x.com", emailVerified |-> FALSE] }
  /\ verification = {}
  /\ handlers = [h \in Handlers |-> IdleHandler]
  /\ sweeper = [timer |-> "scheduled", log |-> "none"]
  /\ issued = [e \in Emails |-> <<>>]
  /\ served = 0

\* A request is taken by the first free handler.
Arrive(h) ==
  /\ \A g \in Handlers : HandlerOrder[g] < HandlerOrder[h] =>
                           handlers[g].pc \notin {"idle", "done"}
  /\ \/ \E e \in Emails, c \in SubmittedCodes : StartVerify(h, e, c)
     \/ \E e \in Emails : StartResend(h, e)
     \/ \E e \in Emails : VerificationStatus(h, e)

Step(h) ==
  \/ VerifySelect(h)
  \/ VerifyUpdate(h)
  \/ VerifyDelete(h)
  \/ ResendSelect(h)
  \/ ResendDelete(h)
  \/ ResendInsert(h)
  \/ ResendSend(h)

Sweep == Cleanup(TRUE) \/ Cleanup(FALSE)

Next ==
  \/ \E h \in Handlers : Arrive(h)
  \/ \E h \in Handlers : Step(h)
  \/ Sweep
  \/ Tick

Spec == Init /\ [][Next]_vars

\* Requests served one after the other, the sweeper still running beside them.
NextSeq ==
  \/ \E h \in Handlers : Quiet /\ Arrive(h)
  \/ \E h \in Handlers : Step(h)
  \/ Sweep
  \/ Tick

SpecSeq == Init /\ [][NextSeq]_vars

\* The clock advances and the interval timer keeps firing, its delete
\* resolving again and again.
SpecLive == SpecSeq /\ WF_vars(Tick) /\ WF_vars(Cleanup(TRUE))

(* ------------------------------- claims -------------------------------- *)

\* A row of email holding code that has not expired at the current time.
HasValidCode(email, code) ==
  \E r \in verification :
    r.identifier = email /\ r.value = code /\ r.expiresAt > now

IsVerified(us, email) == \E u \in us : u.email = email /\ u.emailVerified

\* Handler h completes the await it is at.
Leaves(h, pc) == handlers[h].pc = pc /\ handlers'[h].pc # pc

\* C1: a Validate whose lookup meets a row with its identifier, its code and
\* expiresAt > now goes on to the update, the update leaves the user verified,
\* and the delete leaves no row of the identifier and answers 200 with
\* success; the only other outcome of each step is the 500 of a storage call
\* that throws.
C1_ValidateSucceeds ==
  [][\A h \in Handlers :
       LET e == handlers[h].email
           c == handlers[h].code
           failed == handlers'[h].pc = "done" /\ handlers'[h].resp = VerifyFailed
       IN /\ (Leaves(h, "v_select") /\ HasValidCode(e, c)) =>
               (handlers'[h].pc = "v_update" \/ failed)
          /\ Leaves(h, "v_update") =>
               ((handlers'[h].pc = "v_delete" /\ IsVerified(users', e)) \/ failed)
          /\ Leaves(h, "v_delete") =>
               \/ /\ handlers'[h].pc = "done"
                  /\ handlers'[h].resp = VerifiedResponse
                  /\ IsVerified(users', e)
                  /\ RowsOf(verification', e) = {}
               \/ failed
          /\ (handlers[h].op = "verify" /\ handlers'[h].op = "verify"
              /\ handlers[h].resp # VerifiedResponse
              /\ handlers'[h].resp = VerifiedResponse) => Leaves(h, "v_delete")
    ]_vars

\* A Validate has answered 200: its user is verified and no row of its
\* identifier is left.
C1_Witness ==
  \E h \in Handlers :
    /\ handlers[h].pc = "done"
    /\ handlers[h].op = "verify"
    /\ handlers[h].resp = VerifiedResponse
    /\ IsVerified(users, handlers[h].email)
    /\ RowsOf(verification, handlers[h].email) = {}
    /\ handlers[h].code \in {issued[handlers[h].email][i] :
                               i \in 1..Len(issued[handlers[h].email])}

\* C2: a Validate whose lookup meets no row with its identifier and code, or
\* only rows with expiresAt <= now, answers the one 400 "Invalid or expired
\* verification code" (or the 500 of a lookup that throws), ends there, and
\* leaves the user table and the verification table as they were.
C2_ValidateRejects ==
  [][\A h \in Handlers :
       (Leaves(h, "v_select")
        /\ ~HasValidCode(handlers[h].email, handlers[h].code)) =>
         /\ handlers'[h].pc = "done"
         /\ handlers'[h].resp \in {InvalidOrExpiredCode, VerifyFailed}
         /\ users' = users
         /\ verification' = verification
    ]_vars

\* A Validate was rejected with 400 although a row with its identifier and
\* code is stored: the row expires exactly now, and it is still there.
C2_Witness ==
  \E h \in Handlers :
    /\ handlers[h].pc = "done"
    /\ handlers[h].resp = InvalidOrExpiredCode
    /\ ~IsVerified(users, handlers[h].email)
    /\ \E r \in verification :
         /\ r.identifier = handlers[h].email
         /\ r.value = handlers[h].code
         /\ r.expiresAt = now

Last(seq) == seq[Len(seq)]

\* code is the decimal numeral of a number from 100000 to 999999.
IsSixDigits(code) ==
  /\ Len(code) = 6
  /\ \E u \in RandomSamples :
       /\ code = NumberToString(RandomCode(u))
       /\ RandomCode(u) \in 100000..999999

\* C3: the insert of a Resend that resolves leaves exactly one row of the
\* identifier, the identifier of an existing unverified user: it holds the
\* request's newly generated 6-digit code and expires at now + 10 minutes,
\* after now, whatever rows of the identifier were stored before.
C3_UniqueAfterIssue ==
  [][\A h \in Handlers :
       (Leaves(h, "r_insert") /\ handlers'[h].pc = "r_send") =>
         LET e == handlers[h].email
         IN /\ Cardinality(RowsOf(verification', e)) = 1
            /\ \A r \in RowsOf(verification', e) :
                 /\ r.value = handlers[h].code
                 /\ IsSixDigits(r.value)
                 /\ r.expiresAt = now + OtpTtl
                 /\ r.expiresAt > now
    ]_vars

\* C4: with requests served one after the other and two or more codes stored
\* for an identifier, a Validate with an earlier code that differs from the
\* latest one is rejected with 400 however recently that code was issued, and
\* a Validate with the latest code succeeds as long as an unexpired row of the
\* identifier is stored (500 only when the lookup throws).
C4_OnlyLatestCodeValidates ==
  [][\A h \in Handlers :
       LET e == handlers[h].email
           c == handlers[h].code
           failed == handlers'[h].pc = "done" /\ handlers'[h].resp = VerifyFailed
       IN (Leaves(h, "v_select") /\ Len(issued[e]) >= 2) =>
            /\ (c # Last(issued[e])
                /\ \E i \in 1..(Len(issued[e]) - 1) : issued[e][i] = c) =>
                 (failed \/ (handlers'[h].pc = "done"
                             /\ handlers'[h].resp = InvalidOrExpiredCode))
            /\ (c = Last(issued[e])
                /\ \E r \in RowsOf(verification, e) : r.expiresAt > now) =>
                 (failed \/ handlers'[h].pc = "v_update")
    ]_vars

\* After two issues with different codes, a Validate with the first code was
\* rejected before ten minutes had passed since any issue, the second code's
\* row being stored and unexpired.
C4_Witness ==
  \E h \in Handlers :
    LET e == handlers[h].email
    IN /\ handlers[h].pc = "done"
       /\ handlers[h].resp = InvalidOrExpiredCode
       /\ Len(issued[e]) = 2
       /\ handlers[h].code = issued[e][1]
       /\ issued[e][1] # issued[e][2]
       /\ now < OtpTtl
       /\ HasValidCode(e, issued[e][2])

\* C5: a Resend whose user lookup finds no user answers 404 "User not found",
\* and one whose lookup finds a verified user answers 400 "Email already
\* verified" (500 only when the lookup throws); the request ends there, with
\* no verification row deleted or inserted and no e-mail dispatched.
C5_ResendPreconditions ==
  [][\A h \in Handlers :
       LET e == handlers[h].email
       IN (Leaves(h, "r_select")
           /\ (FindUser(users, e) = {} \/ IsVerified(users, e))) =>
            /\ handlers'[h].pc = "done"
            /\ handlers'[h].resp \in
                 {IF FindUser(users, e) = {} THEN UserNotFound
                  ELSE AlreadyVerified, ResendFailed}
            /\ handlers'[h].mail = <<>>
            /\ verification' = verification
            /\ issued' = issued
            /\ users' = users
    ]_vars

\* A Resend for a verified user was refused with 400 and sent nothing.
C5_Witness ==
  \E h \in Handlers :
    /\ handlers[h].pc = "done"
    /\ handlers[h].op = "resend"
    /\ handlers[h].resp = AlreadyVerified
    /\ handlers[h].mail = <<>>
    /\ IsVerified(users, handlers[h].email)

\* A Resend for an identifier without a user was refused with 404.
C5_WitnessNotFound ==
  \E h \in Handlers :
    /\ handlers[h].pc = "done"
    /\ handlers[h].op = "resend"
    /\ handlers[h].resp = UserNotFound
    /\ FindUser(users, handlers[h].email) = {}

\* A step of the sweeper: nothing else leaves the handlers and the clock alone
\* and changes the verification table or the sweeper's own record.
SweepStep ==
  /\ handlers' = handlers
  /\ now' = now
  /\ <<verification, sweeper>>' # <<verification, sweeper>>

\* C6: a Sweep that resolves at time t deletes all and only the rows with
\* expiresAt <= t, and a second Sweep right after it would change nothing.
C6_SweepDeletesAtOrBefore ==
  [][(SweepStep /\ sweeper'.log = "cleaned") =>
       /\ verification' = {r \in verification : r.expiresAt > now}
       /\ DeleteExpired(verification', now) = verification'
    ]_vars

\* C7: once the Issue/Resend requests have completed, each with its 200
\* answer, the unexpired rows stored for an identifier hold at most one code,
\* however the requests' delete and insert steps were interleaved.
C7_AtMostOneValidCode ==
  (Quiet /\ \A h \in Handlers :
              handlers[h].op = "resend" => handlers[h].resp = ResentResponse) =>
    \A e \in Emails :
      Cardinality({r.value : r \in {q \in RowsOf(verification, e) :
                                      q.expiresAt > now}}) <= 1

\* The ids rows can carry: at most one row is stored per request.
RowIds == 1..MaxRequests

\* C8: with the clock advancing and the sweeper's delete resolving again and
\* again, every row that is stored is later absent from the verification
\* table, the row a failed Validate left behind for a verified user included.
C8_EveryRowEventuallyDeleted ==
  \A i \in RowIds :
    (\E r \in verification : r.id = i) ~> ~(\E r \in verification : r.id = i)

\* A Validate marked its user verified and then failed with 500 before its
\* delete took effect: the code row is still stored.
C8_Witness ==
  \E h \in Handlers :
    /\ handlers[h].pc = "done"
    /\ handlers[h].op = "verify"
    /\ handlers[h].resp = VerifyFailed
    /\ IsVerified(users, handlers[h].email)
    /\ \E r \in verification :
         r.identifier = handlers[h].email /\ r.value = handlers[h].code

\* C9: a run of the sweeper never ends the timer, and a run whose delete
\* throws logs the error and changes nothing but the verification table,
\* which it leaves with no row other than expired ones removed.
C9_SweepErrorSwallowed ==
  [][/\ sweeper'.timer = "scheduled"
     /\ (SweepStep /\ sweeper'.log = "error") =>
          /\ users' = users
          /\ issued' = issued
          /\ served' = served
          /\ verification' \subseteq verification
          /\ \A r \in verification \ verification' : r.expiresAt < now
    ]_vars

\* A sweep has failed with a row stored, and the timer is still scheduled.
C9_Witness ==
  /\ sweeper.log = "error"
  /\ sweeper.timer = "scheduled"
  /\ verification # {}

\* C10: a Resend dispatches its e-mail at most once, and exactly once when it
\* gets as far as the dispatch; a dispatch that fails gives the 500 answer
\* with an error body, and the 200 answer is given only after the row of the
\* request's code was stored and the dispatch succeeded.
C10_DispatchOnceAndVisible ==
  \A h \in Handlers :
    handlers[h].op = "resend" =>
      /\ Len(handlers[h].mail) <= 1
      /\ handlers[h].mail # <<>> => handlers[h].pc = "done"
      /\ handlers[h].mail = <<"failed">> => handlers[h].resp = ResendFailed
      /\ handlers[h].mail = <<"sent">> => handlers[h].resp = ResentResponse
      /\ handlers[h].resp.status = 200 =>
           /\ handlers[h].resp = ResentResponse
           /\ handlers[h].mail = <<"sent">>
           /\ \E i \in 1..Len(issued[handlers[h].email]) :
                issued[handlers[h].email][i] = handlers[h].code
      /\ handlers[h].resp.status \notin {0, 200} =>
           handlers[h].resp \in {UserNotFound, AlreadyVerified, ResendFailed}

\* A Resend stored its row, its dispatch failed, and it answered 500.
C10_Witness ==
  \E h \in Handlers :
    /\ handlers[h].op = "resend"
    /\ handlers[h].pc = "done"
    /\ handlers[h].mail = <<"failed">>
    /\ handlers[h].resp = ResendFailed
    /\ \E r \in verification :
         r.identifier = handlers[h].email /\ r.value = handlers[h].code

\* C11: a user's emailVerified turns true only in the update step of a
\* Validate for that user's email, a step a Validate reaches only from a
\* lookup that met a matching, unexpired row; no step of a Resend, of the
\* sweeper, of a verification-status request or of a rejected Validate
\* changes the user table, and no step turns emailVerified back to false.
C11_VerifiedOnlyByValidate ==
  [][/\ \A e \in Emails :
          /\ (IsVerified(users', e) /\ ~IsVerified(users, e)) =>
               \E h \in Handlers :
                 /\ handlers[h].op = "verify"
                 /\ handlers[h].email = e
                 /\ Leaves(h, "v_update")
          /\ IsVerified(users, e) => IsVerified(users', e)
          /\ (FindUser(users', e) = {}) = (FindUser(users, e) = {})
     /\ \A h \in Handlers :
          /\ handlers'[h].pc = "v_update" =>
               \/ handlers[h].pc = "v_update"
               \/ /\ handlers[h].pc = "v_select"
                  /\ HasValidCode(handlers[h].email, handlers[h].code)
          /\ ~Leaves(h, "v_update") \/ handlers[h].op = "verify"
     /\ users' # users => \E h \in Handlers : Leaves(h, "v_update")
    ]_vars

\* A verification-status request has reported emailVerified true for the user
\* that started unverified.
C11_Witness ==
  \E h \in Handlers :
    /\ handlers[h].op = "status"
    /\ handlers[h].resp = StatusResponse(TRUE)
    /\ IsVerified(users, handlers[h].email)

\* The number of places at which code occurs in the codes stored for email.
TimesIssued(email, code) ==
  Cardinality({i \in 1..Len(issued[email]) : issued[email][i] = code})

\* C12: the Validate requests that have answered success with one code of an
\* identifier are no more than the times that code was stored for it.
C12_CodeIsSingleUse ==
  \A e \in Emails, c \in SubmittedCodes :
    Cardinality({h \in Handlers :
                   /\ handlers[h].op = "verify"
                   /\ handlers[h].resp = VerifiedResponse
                   /\ handlers[h].email = e
                   /\ handlers[h].code = c}) <= TimesIssued(e, c)

\* The resend request of handler h answered after its dispatch failed.
DispatchFailed(hs, h) ==
  /\ hs[h].op = "resend"
  /\ hs[h].pc = "done"
  /\ hs[h].mail = <<"failed">>

\* C13: with requests served one after the other, a Resend whose e-mail
\* dispatch fails answers 500 and leaves the verification table as its insert
\* left it: the failing step changes no row, afterwards every row of the
\* identifier holds the request's new code, there is at most one, it is found
\* by the Validate lookup while it is unexpired, and from the insert on a row
\* of the identifier disappears only by the sweep of an expired row.
C13_NoRollbackOnDispatchFailure ==
  [][\A h \in Handlers :
       LET e == handlers[h].email
           c == handlers[h].code
       IN /\ (handlers[h].pc = "r_insert" /\ handlers'[h].pc = "r_send") =>
               /\ FindVerification(verification', e, c, now') # {}
               /\ Cardinality(RowsOf(verification', e)) = 1
          /\ (Leaves(h, "r_send") /\ DispatchFailed(handlers', h)) =>
               /\ handlers'[h].resp = ResendFailed
               /\ verification' = verification
          /\ (handlers'[h].pc = "r_send" \/ DispatchFailed(handlers', h)) =>
               /\ Cardinality(RowsOf(verification', e)) <= 1
               /\ \A r \in RowsOf(verification', e) :
                    /\ r.value = handlers'[h].code
                    /\ r.expiresAt > now' =>
                         FindVerification(verification', e, r.value, now') # {}
          /\ (handlers[h].pc = "r_send" \/ DispatchFailed(handlers, h)) =>
               \A r \in RowsOf(verification, e) \ verification' :
                 IsSwept(r, now)
    ]_vars

\* A second Resend failed to dispatch: the first code is gone and the second,
\* undelivered code is the one stored row and passes the Validate lookup.
C13_Witness ==
  \E h \in Handlers :
    LET e == handlers[h].email
    IN /\ DispatchFailed(handlers, h)
       /\ handlers[h].resp = ResendFailed
       /\ Len(issued[e]) = 2
       /\ issued[e][1] # issued[e][2]
       /\ handlers[h].code = issued[e][2]
       /\ Cardinality(RowsOf(verification, e)) = 1
       /\ HasValidCode(e, issued[e][2])
       /\ ~HasValidCode(e, issued[e][1])

\* The times at or after the current one at which a stored row can still
\* match a lookup: a row expires OtpTtl after its insert, never later.
LookupTimes == now..(now + OtpTtl)

\* C14: a step of the sweeper removes only rows with expiresAt before the
\* current time, adds none and leaves the users alone, and for every
\* identifier, every code and every time from now on the Validate lookup finds
\* the same rows in the table after the sweep as in the table before it, so a
\* Validate answers after the sweep as it would without it.
C14_SweepKeepsValidateOutcome ==
  [][SweepStep =>
       /\ verification' \subseteq verification
       /\ users' = users
       /\ \A r \in verification \ verification' : r.expiresAt < now
       /\ \A e \in Emails, c \in SubmittedCodes, t \in LookupTimes :
            FindVerification(verification', e, c, t)
              = FindVerification(verification, e, c, t)
    ]_vars

\* The sweeper has removed the one stored code of an identifier while the
\* only Validate request, carrying that code, still awaits its lookup.
C14_Witness ==
  \E h \in Handlers :
    LET e == handlers[h].email
    IN /\ handlers[h].pc = "v_select"
       /\ served = 2
       /\ Len(issued[e]) = 1
       /\ handlers[h].code = issued[e][1]
       /\ RowsOf(verification, e) = {}
       /\ sweeper.log = "cleaned"

====
